---- MODULE Spec2Model ----
(***************************************************************************)
(* flakeBxDF of materials/glitter.cpp: the discrete/continuous microfacet  *)
(* scattering model (f, Sample_f, Pdf) and its helpers                     *)
(* (CreateReflectionCache, CalculateDistribution, BinarySearch,            *)
(* GenerateBRDFi).                                                         *)
(*                                                                         *)
(* Numbers.  A Vector3f is a record [x, y, z, s] standing for the vector   *)
(* (x, y, z) / s, so every dot product is an exact rational                *)
(* [num, den].  A float that can vanish (a weight, a cumulative sum, a     *)
(* delegate's answer) is an integer; weights and cumulative sums are in    *)
(* units of 1/625.  A Spectrum or Float result is a record                 *)
(* [formula, num, den]: which return statement produced it, the product of *)
(* the factors of its numerator, and the list of the factors of its        *)
(* divisor (kept as a list, their product does not fit an int).            *)
(*                                                                         *)
(* Collaborators that are not part of glitter.cpp (the Fresnel model, the  *)
(* tint sources, the continuous distribution's D, G, Sample_wh and Pdf)    *)
(* answer with any value of their range: 0 or 1 for a magnitude, any unit  *)
(* vector for a sampled half-vector.                                       *)
(***************************************************************************)
EXTENDS Integers, Sequences, FiniteSets, TLC

\* ------------------------------------------------------------------ bounds
\* rand() answers k / RAND_MAX for k in 0..RAND_MAX; the model has RandSteps
\* in the place of RAND_MAX.
RandSteps == 4
\* Caches of at most MaxFree flakes draw every normal freely; a longer cache
\* draws one normal of RepeatedNormals and repeats it.
MaxFree == 2

\* ---------------------------------------------------------------- vectors
Vec(x, y, z, s) == [x |-> x, y |-> y, z |-> z, s |-> s]

Rat(n, d) == [num |-> n, den |-> d]

Abs(a) == IF a < 0 THEN -a ELSE a

\* The unit vectors a draw can give: six directions around the circle of the
\* x-z plane, no two neighbours further apart than the cone is wide.
DrawnVectors ==
    { Vec(0, 0, 5, 5), Vec(4, 0, 3, 5), Vec(4, 0, -3, 5),
      Vec(0, 0, -5, 5), Vec(-4, 0, -3, 5), Vec(-4, 0, 3, 5) }

\* The unit vectors a caller or a collaborator can pass: those, and a grazing
\* direction.
UnitVectors == DrawnVectors \cup {Vec(5, 0, 0, 5)}

\* The content of an out-parameter the callee has not written.
NoVector == Vec(0, 0, 0, 0)

DotNum(a, b) == a.x * b.x + a.y * b.y + a.z * b.z

Dot(a, b) == Rat(DotNum(a, b), a.s * b.s)

\* q >= c for rationals of positive denominators
GE(q, c) == q.num * c.den >= c.num * q.den

\* -wo + 2 * Dot(wo, n) * n
Reflect(wo, n) ==
    LET d == 2 * DotNum(wo, n)
    IN  Vec(d * n.x - wo.x * n.s * n.s, d * n.y - wo.y * n.s * n.s,
            d * n.z - wo.z * n.s * n.s, wo.s * n.s * n.s)

SameHemisphere(w, wp) == w.z * wp.z > 0

AbsCosTheta(w) == Rat(Abs(w.z), w.s)

Negate(v) == Vec(-v.x, -v.y, -v.z, v.s)

VecAdd(a, b) ==
    Vec(a.x * b.s + b.x * a.s, a.y * b.s + b.y * a.s, a.z * b.s + b.z * a.s, a.s * b.s)

\* v / v.Length(), the length rounded down to the grid of the coordinates
Normalize(v) ==
    LET l1 == Abs(v.x) + Abs(v.y) + Abs(v.z)
        len == CHOOSE k \in 0..l1 : k * k <= DotNum(v, v) /\ DotNum(v, v) < (k + 1) * (k + 1)
    IN  Vec(v.x, v.y, v.z, len)

\* ------------------------------------------------------------- randomness
\* a + (rand() / RAND_MAX) * (b - a), for rand() = k
RandomFloat(a, b, k) == a + (k * (b - a)) \div RandSteps

\* The vectors RandomVector() can return.
RandomVector == DrawnVectors

\* The sequences of n draws of Normalize(RandomVector()) a cache is built from.
RepeatedNormals == {Vec(0, 0, 5, 5), Vec(4, 0, 3, 5)}

RandomNormals(n) ==
    IF n <= MaxFree
    THEN [1..n -> {Normalize(m) : m \in RandomVector}]
    ELSE {LET u == Normalize(m) IN [i \in 1..n |-> u] : m \in RandomVector \cap RepeatedNormals}

\* ------------------------------------------------------ the model's parameters
PI == Rat(314159265, 100000000)

\* cos(gamma), for the cone half-angle gamma = acos(3/5)
CosGamma == Rat(3, 5)

\* the member area_A
area_A == -2

\* the member R, a spectrum that is not black
R == 1

bmin == 1000

bmax == 1000

\* int N = pow(10,8)
N == 100000000

\* The flake counts a material is constructed with.
FlakeCounts == {-1, 0, 1, 2, 3, 999, 1000}

\* ------------------------------------------------ CreateReflectionCache
\* C++ vectors are indexed from 0.
At(seq, i) == seq[i + 1]

EmptyCache == [i |-> 0, c |-> 0, normals |-> <<>>, reflectioncache |-> <<>>,
               weights |-> <<>>, ctable |-> <<>>]

\* A faulty variant of the loop body: the cumulative sum is pushed before the
\* weight is added to it.
CacheLoopBodyPushFirst(wo, m, st) ==
    LET r0 == Reflect(wo, m)
        r  == IF ~SameHemisphere(wo, r0) THEN Negate(r0) ELSE r0
        w  == Abs(Dot(m, r).num)
    IN  [i |-> st.i + 1, c |-> st.c + w,
         ctable |-> Append(st.ctable, st.c),
         normals |-> Append(st.normals, m),
         reflectioncache |-> Append(st.reflectioncache, r),
         weights |-> Append(st.weights, w)]

\* One iteration of the loop, drawing the normal m.
CacheLoopBody(wo, m, st) ==
    LET r0 == Reflect(wo, m)
        r  == IF ~SameHemisphere(wo, r0) THEN Negate(r0) ELSE r0
        w  == Abs(Dot(m, r).num)
        c  == st.c + w
    IN  [i |-> st.i + 1, c |-> c,
         ctable |-> Append(st.ctable, c),
         normals |-> Append(st.normals, m),
         reflectioncache |-> Append(st.reflectioncache, r),
         weights |-> Append(st.weights, w)]

\* for (; i < n; i++) body: the iterations up to the middle, then the rest
\* (the same iterations in the same order, evaluated at a depth of log n).
RECURSIVE CacheLoop(_, _, _, _)
CacheLoop(wo, ms, st, n) ==
    IF ~(st.i < n) THEN st
    ELSE IF st.i + 1 = n THEN CacheLoopBody(wo, ms[st.i + 1], st)
    ELSE CacheLoop(wo, ms, CacheLoop(wo, ms, st, st.i + (n - st.i) \div 2), n)

\* The four vectors the call leaves, from empty ones, for the draws ms.
CreateReflectionCache(wo, ms, n) ==
    CacheLoop(wo, ms, [EmptyCache EXCEPT !.ctable = <<0>>], n)

\* ------------------------------------------------ CalculateDistribution
\* A faulty variant of the loop body: an entry on the rim of the cone is left out.
DistributionLoopBodyStrict(wi, weights, reflectioncache, gamma, st) ==
    [i |-> st.i + 1,
     D |-> IF ~GE(gamma, Dot(wi, At(reflectioncache, st.i)))
           THEN st.D + At(weights, st.i) ELSE st.D]

\* One iteration of the loop.
DistributionLoopBody(wi, weights, reflectioncache, gamma, st) ==
    [i |-> st.i + 1,
     D |-> IF GE(Dot(wi, At(reflectioncache, st.i)), gamma)
           THEN st.D + At(weights, st.i) ELSE st.D]

RECURSIVE DistributionLoop(_, _, _, _, _, _)
DistributionLoop(wi, weights, reflectioncache, gamma, st, n) ==
    IF ~(st.i < n) THEN st
    ELSE IF st.i + 1 = n THEN DistributionLoopBody(wi, weights, reflectioncache, gamma, st)
    ELSE DistributionLoop(wi, weights, reflectioncache, gamma,
             DistributionLoop(wi, weights, reflectioncache, gamma, st,
                              st.i + (n - st.i) \div 2), n)

\* DK[0] = D / double(N), DK[1] = D; gamma is given by its cosine.
CalculateDistribution(wi, weights, reflectioncache, n, gamma) ==
    LET D == DistributionLoop(wi, weights, reflectioncache, gamma, [i |-> 0, D |-> 0], n).D
    IN  (0 :> Rat(D, N)) @@ (1 :> D)

NoDK == (0 :> Rat(0, 0)) @@ (1 :> 0)

\* --------------------------------------------------------------- results
SpectrumZero == [formula |-> "zero", num |-> 0, den |-> <<>>]

FloatZero == [formula |-> "zero", num |-> 0, den |-> <<>>]

NoResult == [formula |-> "none", num |-> 0, den |-> <<>>]

\* What the caller's Float holds before Sample_f is called.
CallerPdf == {[formula |-> "caller", num |-> v, den |-> <<>>] : v \in {0, 1}}

IsBlack(s) == s.num = 0

IsNaN(q) == q.num = 0 /\ q.den = 0

\* a value is > 0: its numerator is, and every factor of its divisor is
Positive(v) == v.num > 0 /\ \A k \in 1..Len(v.den) : v.den[k].num > 0 /\ v.den[k].den > 0

\* What the collaborators of one call answer: the tinted Fresnel term, the
\* continuous distribution's D(wh) and G(wo, wi).
Externals == [F : {0, 1}, D : {0, 1}, G : {0, 1}]

\* The answers of distribution->Pdf(wo, wh).
DelegatePdf == {0, 1}

VARIABLES flakenumber, pc, op, wo, wi, pdf, ret, cache, DK, randomvalue, start, end, r

vars == <<flakenumber, pc, op, wo, wi, pdf, ret, cache, DK, randomvalue, start, end, r>>

\* -------------------------------------------------------------------- f
\* A faulty variant of fDegenerate: the test of the two cosines is missing.
fDegenerateNoCosine(o, i) ==
    LET wh == VecAdd(i, o)
    IN  \/ (wh.x = 0 /\ wh.y = 0 /\ wh.z = 0)
        \/ flakenumber = 0

\* The returns of Spectrum(0.) before the cache is built.
fDegenerate(o, i) ==
    LET cosThetaO == AbsCosTheta(o)
        cosThetaI == AbsCosTheta(i)
        wh == VecAdd(i, o)
    IN  \/ cosThetaI.num = 0 \/ cosThetaO.num = 0
        \/ (wh.x = 0 /\ wh.y = 0 /\ wh.z = 0)
        \/ flakenumber = 0

\* return R * F * distri / (4.0 * cosThetaI * cosThetaO * 200.0), with
\* distri = DK[0] * (4.0 / (abs(area_A) * conearea))
DiscreteValue(o, i, dk, ext) ==
    [formula |-> "discrete",
     num |-> R * ext.F * (dk[0].num * 4),
     den |-> <<Rat(dk[0].den, 1), Rat(Abs(area_A), 1),
               Rat(2, 1), PI, Rat(CosGamma.den - CosGamma.num, CosGamma.den),
               Rat(4, 1), AbsCosTheta(i), AbsCosTheta(o), Rat(200, 1)>>]

\* return R * distribution->D(wh) * distribution->G(wo, wi) * F /
\*        (4 * cosThetaI * cosThetaO)
ContinuousValue(o, i, ext) ==
    [formula |-> "continuous",
     num |-> R * ext.D * ext.G * ext.F,
     den |-> <<Rat(4, 1), AbsCosTheta(i), AbsCosTheta(o)>>]

\* A faulty variant of fDispatch: the discrete regime reaches up to bmin.
fDispatchInclusive(o, i, dk, ext) ==
    LET flag == ~IsNaN(dk[0])
    IN  IF IsNaN(dk[0]) \/ dk[0].num = 0 THEN SpectrumZero
        ELSE IF flakenumber <= bmin /\ flag THEN DiscreteValue(o, i, dk, ext)
        ELSE IF flakenumber >= bmax \/ ~flag THEN ContinuousValue(o, i, ext)
        ELSE SpectrumZero

\* A faulty variant of fDispatch: the validation check is missing, and the
\* flag tells whether the density is usable.
fDispatchNoValidation(o, i, dk, ext) ==
    LET flag == ~IsNaN(dk[0]) /\ dk[0].num # 0
    IN  IF flakenumber < bmin /\ flag THEN DiscreteValue(o, i, dk, ext)
        ELSE IF flakenumber >= bmax \/ ~flag THEN ContinuousValue(o, i, ext)
        ELSE SpectrumZero

\* From the validation check to the end of f, for the density dk of the
\* call's cache and the collaborators' answers ext.
fDispatch(o, i, dk, ext) ==
    LET flag == ~IsNaN(dk[0])
    IN  IF IsNaN(dk[0]) \/ dk[0].num = 0 THEN SpectrumZero
        ELSE IF flakenumber < bmin /\ flag THEN DiscreteValue(o, i, dk, ext)
        ELSE IF flakenumber >= bmax \/ ~flag THEN ContinuousValue(o, i, ext)
        ELSE SpectrumZero

\* ------------------------------------------------------------------ Pdf
\* A faulty variant of PdfDegenerate: the test of the flake count is missing.
PdfDegenerateNoCount(o, i) == ~SameHemisphere(o, i)

\* The returns of 0 before the cache is built.
PdfDegenerate(o, i) == ~SameHemisphere(o, i) \/ flakenumber <= 0

\* From the check of DK[1] to the end of Pdf, for the density dk and the
\* cumulative table of the call's cache and the delegate's answer dpdf.
PdfDispatch(o, i, dk, ctable, dpdf) ==
    LET flag == (dk[1] # 0) /\ (flakenumber # 0)
        wh == Normalize(VecAdd(o, i))
    IN  IF IsNaN(Rat(dk[1], 1)) THEN FloatZero
        ELSE IF flakenumber < bmin /\ flag
        THEN [formula |-> "discrete",
              num |-> dk[1],
              den |-> <<PI, Rat(CosGamma.den - CosGamma.num, CosGamma.den),
                        Rat(At(ctable, flakenumber), 1)>>]
        ELSE IF flakenumber >= bmax \/ ~flag
        THEN [formula |-> "continuous",
              num |-> dpdf,
              den |-> <<Rat(4, 1), Dot(o, wh)>>]
        ELSE FloatZero

\* The locals a call can get from CreateReflectionCache and
\* CalculateDistribution, one for every outcome of the draws.
Caches(o) == {CreateReflectionCache(o, ms, flakenumber) : ms \in RandomNormals(flakenumber)}

Locals(i, caches) ==
    { [cache |-> rc,
       DK |-> CalculateDistribution(i, rc.weights, rc.reflectioncache, flakenumber, CosGamma)]
      : rc \in caches }

\* The values a call f(o, i) can return, given the locals it can get.
fReturns(o, i, locals) ==
    IF fDegenerate(o, i) THEN {SpectrumZero}
    ELSE {fDispatch(o, i, l.DK, ext) : l \in locals, ext \in Externals}

\* The values a call Pdf(o, i) can return, given the locals it can get.
PdfReturns(o, i, locals) ==
    IF PdfDegenerate(o, i) THEN {FloatZero}
    ELSE {PdfDispatch(o, i, l.DK, l.cache.ctable, dpdf) : l \in locals, dpdf \in DelegatePdf}

\* ---------------------------------------------------------------- state
Init ==
    /\ flakenumber \in FlakeCounts
    /\ pc = "idle"
    /\ op = "none"
    /\ wo = NoVector
    /\ wi = NoVector
    /\ pdf = NoResult
    /\ ret = NoResult
    /\ cache = EmptyCache
    /\ DK = NoDK
    /\ randomvalue = 0
    /\ start = 0
    /\ end = 0
    /\ r = NoVector

\* A call f(o, i) from the integrator, to its return.
f ==
    /\ pc = "idle"
    /\ \E o \in UnitVectors :
         \E rc \in Caches(o), i \in UnitVectors :
             /\ op' = "f" /\ pc' = "done" /\ wo' = o /\ wi' = i
             /\ IF fDegenerate(o, i)
                THEN ret' = SpectrumZero /\ UNCHANGED <<cache, DK>>
                ELSE \E l \in Locals(i, {rc}), ext \in Externals :
                         /\ cache' = l.cache
                         /\ DK' = l.DK
                         /\ ret' = fDispatch(o, i, l.DK, ext)
    /\ UNCHANGED <<flakenumber, pdf, randomvalue, start, end, r>>

\* A call Pdf(o, i) from the integrator, to its return.
Pdf ==
    /\ pc = "idle"
    /\ \E o \in UnitVectors :
         \E rc \in Caches(o), i \in UnitVectors :
             /\ op' = "Pdf" /\ pc' = "done" /\ wo' = o /\ wi' = i
             /\ IF PdfDegenerate(o, i)
                THEN ret' = FloatZero /\ UNCHANGED <<cache, DK>>
                ELSE \E l \in Locals(i, {rc}), dpdf \in DelegatePdf :
                         /\ cache' = l.cache
                         /\ DK' = l.DK
                         /\ ret' = PdfDispatch(o, i, l.DK, l.cache.ctable, dpdf)
    /\ UNCHANGED <<flakenumber, pdf, randomvalue, start, end, r>>

\* ------------------------------------------------------------- Sample_f
\* A call Sample_f(o, wi, u, pdf, sampledType) from the integrator: the
\* degenerate returns, the cache, the choice of the regime and, in the
\* discrete regime, the draw of randomvalue.
Sample_f ==
    /\ pc = "idle"
    /\ op' = "Sample_f"
    /\ UNCHANGED <<flakenumber, wi, DK, r>>
    /\ \E o \in UnitVectors, p0 \in CallerPdf :
        /\ wo' = o /\ pdf' = p0
        /\ IF o.z = 0 \/ flakenumber <= 0
           THEN /\ ret' = SpectrumZero /\ pc' = "done"
                /\ UNCHANGED <<cache, randomvalue, start, end>>
           ELSE \E rc \in Caches(o) :
                      /\ cache' = rc
                      /\ IF flakenumber < bmin
                         THEN /\ \E k \in 0..RandSteps :
                                   randomvalue' = RandomFloat(0, At(rc.ctable, flakenumber), k)
                              /\ start' = 0 /\ end' = flakenumber
                              /\ ret' = NoResult /\ pc' = "BinarySearch"
                         ELSE IF flakenumber >= bmax
                         THEN /\ ret' = NoResult /\ pc' = "Sample_wh"
                              /\ UNCHANGED <<randomvalue, start, end>>
                         ELSE /\ ret' = SpectrumZero /\ pc' = "done"
                              /\ UNCHANGED <<randomvalue, start, end>>

\* One evaluation of the loop test and, if it holds, of the loop body of
\* BinarySearch(reflectioncache, ctable, randomvalue, flakenumber): what it
\* does to start and end, and the vector it returns if it returns.
BinarySearchStep(c, ctable, value, s, e) ==
    LET middle == s + (e - s) \div 2
    IN  IF ~(s <= e)
        THEN [start |-> s, end |-> e, returns |-> TRUE, result |-> Vec(0, 0, 0, 1)]
        ELSE IF At(ctable, s) < value /\ At(ctable, s + 1) >= value
        THEN [start |-> s, end |-> e, returns |-> TRUE, result |-> At(c, s)]
        ELSE IF At(ctable, middle) >= value
        THEN [start |-> s, end |-> middle, returns |-> FALSE, result |-> NoVector]
        ELSE [start |-> middle, end |-> e, returns |-> FALSE, result |-> NoVector]

\* An iteration of BinarySearch.  When it returns, its copies of the cache
\* are destroyed and Sample_f does not read its own vectors again: the
\* model forgets them, and randomvalue, here.  An iteration that assigns
\* start or end the value it has leaves the state as it is: from there on
\* every iteration is that one, and the loop spins.
BinarySearch ==
    /\ pc = "BinarySearch"
    /\ \E st \in {BinarySearchStep(cache.reflectioncache, cache.ctable, randomvalue, start, end)} :
           IF st.returns
           THEN /\ r' = st.result
                /\ pc' = "GenerateBRDFi"
                /\ cache' = EmptyCache /\ randomvalue' = 0 /\ start' = 0 /\ end' = 0
           ELSE /\ start' = st.start /\ end' = st.end
                /\ UNCHANGED <<r, pc, cache, randomvalue>>
    /\ UNCHANGED <<flakenumber, op, wo, wi, pdf, ret, DK>>

\* The test of the rejection loop of GenerateBRDFi(r, gamma) on the draw i.
InCone(i, axis, gamma) == GE(Dot(i, axis), gamma)

\* A faulty variant of SampleDiscreteTail: the hemisphere test is missing.
SampleDiscreteTailNoTest(o, i, p0, caches) ==
    LET locals == Locals(i, caches)
    IN  {[pdf |-> p, ret |-> v] :
            p \in PdfReturns(o, i, locals), v \in fReturns(o, i, locals)}

\* The rest of the discrete branch of Sample_f, once *wi is written: the
\* hemisphere test, *pdf = Pdf(wo, *wi) and return f(wo, *wi).  Pdf and f
\* each build a cache of their own.
SampleDiscreteTail(o, i, p0, caches) ==
    IF ~SameHemisphere(o, i)
    THEN {[pdf |-> p0, ret |-> SpectrumZero]}
    ELSE LET locals == Locals(i, caches)
         IN  {[pdf |-> p, ret |-> v] :
                 p \in PdfReturns(o, i, locals), v \in fReturns(o, i, locals)}

\* A draw of the rejection loop that lands in the cone: GenerateBRDFi
\* returns it and Sample_f writes it to *wi.
GenerateBRDFi ==
    /\ pc = "GenerateBRDFi"
    /\ \E i \in {Normalize(v) : v \in RandomVector} :
          InCone(i, r, CosGamma) /\ wi' = i
    /\ pc' = "sampled" /\ r' = NoVector
    /\ UNCHANGED <<flakenumber, op, wo, pdf, ret, cache, DK, randomvalue, start, end>>

\* The discrete branch of Sample_f from the hemisphere test to its return.
SampleDiscrete ==
    /\ pc = "sampled"
    /\ \E caches \in {Caches(wo)} :
          \E out \in SampleDiscreteTail(wo, wi, pdf, caches) :
              pdf' = out.pdf /\ ret' = out.ret
    /\ pc' = "done"
    /\ UNCHANGED <<flakenumber, op, wo, wi, cache, DK, randomvalue, start, end, r>>

\* A draw of the rejection loop that misses the cone: the loop goes on.
GenerateBRDFiReject ==
    /\ pc = "GenerateBRDFi"
    /\ \E i \in {Normalize(v) : v \in RandomVector} : ~InCone(i, r, CosGamma)
    /\ UNCHANGED vars

\* The continuous branch of Sample_f, for the half-vector wh that
\* distribution->Sample_wh(wo, u) answers.
SampleContinuousTail(o, wh, p0, caches) ==
    LET i == Reflect(o, wh)
    IN  IF ~SameHemisphere(o, i)
        THEN {[wi |-> i, pdf |-> p0, ret |-> SpectrumZero]}
        ELSE {[wi |-> i,
               pdf |-> [formula |-> "continuous", num |-> dpdf,
                        den |-> <<Rat(4, 1), Dot(o, wh)>>],
               ret |-> v] :
                 dpdf \in DelegatePdf, v \in fReturns(o, i, Locals(i, caches))}

\* The continuous branch of Sample_f, to its return.  The cache Sample_f
\* built is never read.
SampleContinuous ==
    /\ pc = "Sample_wh"
    /\ \E caches \in {Caches(wo)} :
           \E wh \in UnitVectors :
             \E out \in SampleContinuousTail(wo, wh, pdf, caches) :
                 wi' = out.wi /\ pdf' = out.pdf /\ ret' = out.ret
    /\ pc' = "done" /\ cache' = EmptyCache
    /\ UNCHANGED <<flakenumber, op, wo, DK, randomvalue, start, end, r>>

\* The integrator is done with the results and makes its next call.
NextCall ==
    /\ pc = "done"
    /\ pc' = "idle" /\ op' = "none"
    /\ wo' = NoVector /\ wi' = NoVector /\ pdf' = NoResult /\ ret' = NoResult
    /\ cache' = EmptyCache /\ DK' = NoDK
    /\ randomvalue' = 0 /\ start' = 0 /\ end' = 0 /\ r' = NoVector
    /\ UNCHANGED flakenumber

Next ==
    \/ f
    \/ Pdf
    \/ Sample_f
    \/ BinarySearch
    \/ GenerateBRDFi
    \/ GenerateBRDFiReject
    \/ SampleDiscrete
    \/ SampleContinuous
    \/ NextCall

Spec == Init /\ [][Next]_vars

\* The loops of a call in progress go on, and the draws of the rejection
\* sampler are fair: a direction inside the cone is drawn in the end.
FairSpec ==
    /\ Init /\ [][Next]_vars
    /\ WF_vars(BinarySearch)
    /\ SF_vars(GenerateBRDFi)

\* ------------------------------------------------------------ properties
\* A call has returned.
Returned(name) == op = name /\ pc = "done"

\* A call of f or Pdf has returned from beyond its degenerate returns: its
\* cache and its density are those of the state.
Built(name) == Returned(name) /\ Len(cache.ctable) > 0

\* The sum of seq[lo + 1 .. hi]
RECURSIVE SumSeq(_, _, _)
SumSeq(seq, lo, hi) ==
    IF hi <= lo THEN 0
    ELSE IF hi = lo + 1 THEN seq[hi]
    ELSE SumSeq(seq, lo, lo + (hi - lo) \div 2) + SumSeq(seq, lo + (hi - lo) \div 2, hi)

\* The weights, with 0 in the place of the weight of every entry whose
\* reflected direction is not within the cone around i.
WeightsInCone(i) ==
    [k \in 1..Len(cache.weights) |->
        IF GE(Dot(i, cache.reflectioncache[k]), CosGamma) THEN cache.weights[k] ELSE 0]

\* C1: for every target in [0, table[n]], BinarySearch returns, and what it
\* returns is the reflected direction of the entry i with
\* table[i] < target <= table[i+1].
C1_BinarySearchReturnsBracketedEntry ==
    /\ [][ pc = "BinarySearch" /\ pc' = "GenerateBRDFi"
           => \E i \in 0..(flakenumber - 1) :
                 /\ At(cache.ctable, i) < randomvalue
                 /\ randomvalue <= At(cache.ctable, i + 1)
                 /\ r' = At(cache.reflectioncache, i) ]_vars
    /\ [](pc = "BinarySearch" => <>(r # NoVector))

\* C2: whenever Sample_f returns a scattering value that is not zero, the
\* density it reports through *pdf is strictly positive.
C2_NonZeroScatteringHasPositivePdf ==
    Returned("Sample_f") /\ ~IsBlack(ret) => Positive(pdf)

\* C3, as the code has it: Sample_f writes *wi before it tests the
\* hemisphere; a direction it wrote that is not in the hemisphere of wo
\* comes with the zero spectrum and with *pdf not written, so a scattering
\* value that is not zero comes with a direction in the hemisphere of wo.
C3_OtherHemisphereReturnsZero ==
    Returned("Sample_f") /\ wi # NoVector /\ ~SameHemisphere(wo, wi)
        => ret = SpectrumZero /\ pdf \in CallerPdf

\* C3, as stated: after a call of Sample_f the direction written to *wi is
\* not in the hemisphere opposite to wo.
C3_NeverOppositeHemisphere ==
    Returned("Sample_f") /\ wi # NoVector => ~(wo.z * wi.z < 0)

C3_Witness ==
    Returned("Sample_f") /\ wi # NoVector /\ wo.z * wi.z < 0 /\ flakenumber = 1

\* C4: CreateReflectionCache leaves n normals, n reflected directions, n
\* weights and a table of n + 1 cumulative sums that starts at 0, grows by
\* the weight of the entry at every step, never decreases, and ends at the
\* sum of all weights.
C4_CacheShape ==
    (Built("f") \/ Built("Pdf") \/ pc = "Sample_wh" \/ (pc = "BinarySearch" /\ start = 0 /\ end = flakenumber))
        => LET n == IF flakenumber < 0 THEN 0 ELSE flakenumber
           IN  /\ Len(cache.normals) = n
               /\ Len(cache.reflectioncache) = n
               /\ Len(cache.weights) = n
               /\ Len(cache.ctable) = n + 1
               /\ At(cache.ctable, 0) = 0
               /\ \A i \in 0..(n - 1) :
                     /\ At(cache.ctable, i + 1) = At(cache.ctable, i) + At(cache.weights, i)
                     /\ At(cache.ctable, i + 1) >= At(cache.ctable, i)
               /\ At(cache.ctable, n) = SumSeq(cache.weights, 0, n)

C4_Witness ==
    /\ pc = "BinarySearch" /\ start = 0 /\ end = flakenumber /\ flakenumber = 2
    /\ At(cache.weights, 0) # At(cache.weights, 1)

\* C5, as the code has it: for a flake count n <= 0, f returns the zero
\* spectrum, Pdf returns 0, and Sample_f returns the zero spectrum and
\* writes neither *wi nor *pdf: the density is the caller's own value.
C5_NoFlakesNoScattering ==
    flakenumber <= 0 /\ pc = "done"
        => /\ ret = SpectrumZero
           /\ op = "Sample_f" => pdf \in CallerPdf /\ wi = NoVector

\* C5, as stated: for a flake count n <= 0 every call returns zero, and the
\* density Sample_f reports is 0.
C5_NoFlakesZeroDensity ==
    flakenumber <= 0 /\ pc = "done"
        => /\ ret = SpectrumZero
           /\ op = "Sample_f" => pdf.num = 0

C5_Witness ==
    flakenumber = 0 /\ Returned("Sample_f") /\ wo.z # 0 /\ pdf.num = 1

\* C6, as the code has it: f and Sample_f take the discrete formula only for
\* n < 1000 and the continuous one only for n >= 1000; Pdf takes the
\* discrete formula only for n < 1000 with an entry of its cache within the
\* cone, and the continuous one for n >= 1000 and for every n whose cache
\* has no entry within the cone.
C6_RegimeByCountAndDensity ==
    pc = "done"
        => /\ op \in {"f", "Sample_f"}
                => /\ ret.formula = "discrete" => flakenumber < 1000
                   /\ ret.formula = "continuous" => flakenumber >= 1000
           /\ op = "Sample_f"
                => /\ pdf.formula = "discrete" => flakenumber < 1000
                   /\ flakenumber >= 1000 => pdf.formula \in {"continuous", "caller"}
           /\ Built("Pdf")
                => /\ ret.formula \in {"discrete", "continuous"}
                   /\ ret.formula = "discrete" <=> flakenumber < 1000 /\ DK[1] # 0

\* C6, as stated: a result computed past the degenerate returns is produced
\* by the discrete formula if n < 1000 and by the continuous one if
\* n >= 1000, in f, in Sample_f and in Pdf.
C6_RegimeByCountOnly ==
    pc = "done"
        => /\ ret.formula \in {"discrete", "continuous"}
                => (ret.formula = "discrete" <=> flakenumber < 1000)
           /\ pdf.formula \in {"discrete", "continuous"}
                => (pdf.formula = "discrete" <=> flakenumber < 1000)

C6_Witness ==
    flakenumber = 999 /\ Built("Pdf") /\ DK[1] = 0 /\ ret.formula = "continuous"

\* C7: for the degenerate inputs (wo.z = 0, wi.z = 0, wi = -wo) f returns
\* exactly the zero spectrum, whatever the flake count, and consults no
\* collaborator.
C7_DegenerateInputsGiveZero ==
    Returned("f") /\ (wo.z = 0 \/ wi.z = 0 \/ wi = Negate(wo)) => ret = SpectrumZero

C7_Witness ==
    Returned("f") /\ wi = Negate(wo) /\ wo.z # 0 /\ flakenumber = 2

\* C8, as the code has it: when the density of the cache f built is not a
\* number or is zero, f returns the zero spectrum, whatever n; the
\* continuous value is returned only for n >= 1000, with a usable density.
C8_UnusableDensityGivesZero ==
    Built("f")
        => /\ IsNaN(DK[0]) \/ DK[0].num = 0 => ret = SpectrumZero
           /\ ret.formula = "continuous" => flakenumber >= 1000 /\ DK[0].num # 0

\* C8, as stated: when the density of the cache f built is unusable, f
\* returns the continuous value, whatever n.
C8_UnusableDensityGivesContinuous ==
    Built("f") /\ (IsNaN(DK[0]) \/ DK[0].num = 0) => ret.formula = "continuous"

C8_Witness ==
    Built("f") /\ flakenumber = 2 /\ DK[0].num = 0 /\ ret = SpectrumZero

\* C9: for every cache and every target drawn, a call of Sample_f gets out
\* of the search of the table and of the rejection sampler, to the code
\* that runs straight to its return, the draws of the sampler being fair.
C9_SampleLeavesItsLoops ==
    [](op = "Sample_f" /\ pc \in {"BinarySearch", "GenerateBRDFi"} => <>(pc = "sampled"))

\* C10: CalculateDistribution returns (raw / 10^8, raw), raw being the sum
\* of the weights of the entries whose reflected direction is within the
\* cone around wi: the sum of all weights if every entry is, 0 (and a
\* density of 0) if none is.
C10_DistributionIsConeWeight ==
    Built("f") \/ Built("Pdf")
        => LET n == Len(cache.weights)
               inCone == WeightsInCone(wi)
           IN  /\ DK[1] = SumSeq(inCone, 0, n)
               /\ DK[0] = Rat(DK[1], 100000000)
               /\ (\A k \in 1..n : GE(Dot(wi, cache.reflectioncache[k]), CosGamma))
                     => DK[1] = SumSeq(cache.weights, 0, n)
               /\ (\A k \in 1..n : ~GE(Dot(wi, cache.reflectioncache[k]), CosGamma))
                     => DK[1] = 0 /\ DK[0].num = 0

C10_Witness ==
    /\ Built("Pdf") /\ flakenumber = 2
    /\ DK[1] = At(cache.weights, 0) /\ At(cache.weights, 1) # 0
    /\ GE(Dot(wi, At(cache.reflectioncache, 0)), CosGamma)
    /\ GE(CosGamma, Dot(wi, At(cache.reflectioncache, 0)))
    /\ ~GE(Dot(wi, At(cache.reflectioncache, 1)), CosGamma)

====
